---- MODULE Spec2Model ----
(***************************************************************************)
(* Model of snapchat_dlp.SnapchatDL (src/snapchat_dlp/snapchat_dlp.py):    *)
(* one download(username) call, from the HTTP fetch through the parse of   *)
(* the embedded JSON payload to the submission of one download task per    *)
(* story item to a ThreadPoolExecutor, interleaved with the pool's worker  *)
(* threads and with a KeyboardInterrupt arriving during submission.        *)
(*                                                                         *)
(* Python values are modelled as follows.  A JSON object is a record; the *)
(* JSON value null is the record Null; a JSON array is a sequence.  An    *)
(* operator that models a Python function returns a record whose field    *)
(* exc names the exception the function raises ("none" when it returns).  *)
(***************************************************************************)
EXTENDS Integers, Sequences, FiniteSets, TLC

VARIABLES
    config,      \* the fields __init__ stores: max_workers, limit_story, quiet, dump_json
    pc,          \* position of the flow that runs download()
    exc,         \* the exception that left download() ("none" when none did)
    response,    \* what _api_response returned
    stories,     \* the list _web_fetch_story returned
    snap_user,   \* the user_info _web_fetch_story returned
    i,           \* number of items the for loop has taken from stories
    cur,         \* (media_url, media_output) of the item being submitted
    executor,    \* the ThreadPoolExecutor: created, shutdown, threads, idle_sem
    queue,       \* work queue of the pool: indices into submitted, FIFO
    running,     \* tasks a worker thread is executing
    finished,    \* tasks whose download_url call has returned
    submitted,   \* the tasks handed to executor.submit, in submission order
    dirs,        \* directories created by os.makedirs
    sidecars,    \* files written by dump_response
    log,         \* the logger calls, in order
    interrupted, \* a KeyboardInterrupt was raised in the flow
    at_signal    \* number of tasks submitted when the KeyboardInterrupt was raised

vars == <<config, pc, exc, response, stories, snap_user, i, cur, executor, queue,
          running, finished, submitted, dirs, sidecars, log, interrupted, at_signal>>

----------------------------------------------------------------------------
(* Bounds of the model *)

MaxStories == 2

MaxWorkers == 2

(* Program constants *)

StatusOk == 200

StatusNotFound == 404

\* non-success status codes other than 404
OtherStatuses == {500}

DefaultLimitStory == -1

Username == "u"

DirectoryPrefix == "/out"

SleepInterval == "sleep_interval"

----------------------------------------------------------------------------
(* Python objects *)

Null == [json_null |-> TRUE]

IsDict(x) == "json_null" \notin DOMAIN x

\* x[k] of Python: TypeError when x is None, KeyError when the key is absent
GetExc(x, k) ==
    IF ~IsDict(x) THEN "TypeError"
    ELSE IF k \notin DOMAIN x THEN "KeyError"
    ELSE "none"

\* k in x of Python: None is not iterable
InExc(x, k) == IF ~IsDict(x) THEN "TypeError" ELSE "none"

\* UserNotFoundError is defined in snapchat_dlp.utils: the extractor's
\* not-found outcome is handled by download() like the other abort outcomes,
\* which makes it an APIResponseError.
UserNotFoundErrorBase == "APIResponseError"

\* isinstance(e, cls) for the classes the except clauses name;
\* json.JSONDecodeError is a ValueError.
IsInstance(e, cls) ==
    \/ e = cls
    \/ e = "JSONDecodeError" /\ cls = "ValueError"
    \/ e = "UserNotFoundError" /\ cls = UserNotFoundErrorBase

----------------------------------------------------------------------------
(* Story items of the snap-list *)

Item(id, url, kind, ts) ==
    [snapId |-> [value |-> id], snapUrls |-> [mediaUrl |-> url],
     snapMediaType |-> kind, timestampInSec |-> [value |-> ts]]

ItemA == Item("a", "http://m/a", 0, <<"5">>)

\* same second and same kind as ItemA, another id
ItemB == Item("b", "http://m/b", 0, <<"5">>)

\* another day, a media kind outside the table
ItemC == Item("c", "http://m/c", 7, <<"9", "0", "0", "6", "1">>)

\* no snapId field
ItemNoId ==
    [snapUrls |-> [mediaUrl |-> "http://m/d"], snapMediaType |-> 1,
     timestampInSec |-> [value |-> <<"5">>]]

\* a timestamp that is no number
ItemBadTs == Item("e", "http://m/e", 0, <<"x">>)

Items == {ItemA, ItemB, ItemC, ItemNoId, ItemBadTs}

RECURSIVE SeqsUpTo(_, _)
SeqsUpTo(S, n) ==
    IF n = 0 THEN {<<>>}
    ELSE LET shorter == SeqsUpTo(S, n - 1)
         IN  shorter \cup {Append(s, x) : s \in {t \in shorter : Len(t) = n - 1}, x \in S}

StoryLists == SeqsUpTo(Items, MaxStories)

----------------------------------------------------------------------------
(* HTTP responses.  The body is the sequence of its segments: other markup, *)
(* or a <script id="__NEXT_DATA__" type="application/json"> block with the  *)
(* text between its tags.  The text is NotJson or the value it decodes to.  *)

Html == [tag |-> "html"]

Script(data) == [tag |-> "script", data |-> data]

NotJson == [not_json |-> TRUE]

Profile ==
    ("$case" :> "publicProfileInfo") @@ ("publicProfileInfo" :> [username |-> Username])

ProfileNoCase == [publicProfileInfo |-> [username |-> Username]]

ProfileNoVariant == ("$case" :> "publicProfileInfo") @@ ("other" :> "x")

NextData(pageProps) == [buildId |-> "b", props |-> [pageProps |-> pageProps]]

WithStories(s) ==
    NextData([pageType |-> 1, userProfile |-> Profile, story |-> [snapList |-> s]])

\* payloads whose userProfile is present and well formed
WellFormedData ==
    {NextData([pageType |-> 1, userProfile |-> Profile])}
        \cup {WithStories(s) : s \in StoryLists}

\* payloads that lack part of the expected structure
OtherData ==
    { Null,
      [buildId |-> "b"],
      [buildId |-> "b", props |-> Null],
      [buildId |-> "b", props |-> [other |-> 1]],
      NextData(Null),
      NextData([pageType |-> 1]),
      NextData([pageType |-> 1, story |-> [snapList |-> <<ItemA>>]]),
      NextData([pageType |-> 1, userProfile |-> Null]),
      NextData([pageType |-> 1, userProfile |-> ProfileNoCase]),
      NextData([pageType |-> 1, userProfile |-> ProfileNoVariant]),
      NextData([pageType |-> 1, userProfile |-> Profile, story |-> Null]),
      NextData([pageType |-> 1, userProfile |-> Profile, story |-> [storyTitle |-> "t"]]) }

Texts ==
    {<<Html>>, <<Html, Script(NotJson)>>,
     <<Script(NotJson), Html, Script(WithStories(<<ItemA>>))>>,
     <<Script(WithStories(<<ItemA>>)), Script(NotJson)>>}
        \cup {<<Html, Script(d), Html>> : d \in WellFormedData \cup OtherData}

ErrorTexts == {<<Html>>, <<Html, Script(WithStories(<<ItemA>>)), Html>>}

Responses ==
    {[status_code |-> StatusOk, text |-> t] : t \in Texts}
        \cup {[status_code |-> c, text |-> t] :
                 c \in {StatusNotFound} \cup OtherStatuses, t \in ErrorTexts}

\* what the response variable holds before and without a response
NoResponse == [status_code |-> 0, text |-> <<>>]

----------------------------------------------------------------------------
(* _web_fetch_story *)

\* re.findall(self.regexp_web_json, response.text): the captured groups
FindAll(text) ==
    LET scripts == SelectSeq(text, LAMBDA seg : seg.tag = "script")
    IN  [k \in 1..Len(scripts) |-> scripts[k].data]

\* json.loads(block)
JsonLoads(block) ==
    IF "not_json" \in DOMAIN block
    THEN [exc |-> "JSONDecodeError", value |-> Null]
    ELSE [exc |-> "none", value |-> block]

\* content["props"]["pageProps"]
PageProps(content) ==
    IF GetExc(content, "props") # "none"
    THEN [exc |-> GetExc(content, "props"), value |-> Null]
    ELSE IF GetExc(content.props, "pageProps") # "none"
    THEN [exc |-> GetExc(content.props, "pageProps"), value |-> Null]
    ELSE [exc |-> "none", value |-> content.props.pageProps]

\* mutant of util_web_user_info: a missing userProfile yields no user info
\* instead of raising UserNotFoundError
util_web_user_info_lenient(content) ==
    LET pp == PageProps(content) IN
    IF pp.exc # "none" THEN [exc |-> pp.exc, value |-> Null]
    ELSE IF InExc(pp.value, "userProfile") # "none"
    THEN [exc |-> InExc(pp.value, "userProfile"), value |-> Null]
    ELSE IF "userProfile" \in DOMAIN pp.value
    THEN LET user_profile == pp.value.userProfile IN
         IF GetExc(user_profile, "$case") # "none"
         THEN [exc |-> GetExc(user_profile, "$case"), value |-> Null]
         ELSE LET field_id == user_profile["$case"] IN
              IF GetExc(user_profile, field_id) # "none"
              THEN [exc |-> GetExc(user_profile, field_id), value |-> Null]
              ELSE [exc |-> "none", value |-> user_profile[field_id]]
    ELSE [exc |-> "none", value |-> Null]

util_web_user_info(content) ==
    LET pp == PageProps(content) IN
    IF pp.exc # "none" THEN [exc |-> pp.exc, value |-> Null]
    ELSE IF InExc(pp.value, "userProfile") # "none"
    THEN [exc |-> InExc(pp.value, "userProfile"), value |-> Null]
    ELSE IF "userProfile" \in DOMAIN pp.value
    THEN LET user_profile == pp.value.userProfile IN
         IF GetExc(user_profile, "$case") # "none"
         THEN [exc |-> GetExc(user_profile, "$case"), value |-> Null]
         ELSE LET field_id == user_profile["$case"] IN
              IF GetExc(user_profile, field_id) # "none"
              THEN [exc |-> GetExc(user_profile, field_id), value |-> Null]
              ELSE [exc |-> "none", value |-> user_profile[field_id]]
    ELSE [exc |-> "UserNotFoundError", value |-> Null]

\* mutant of util_web_story: the story field is read without testing for it
util_web_story_unchecked(content) ==
    LET pp == PageProps(content) IN
    IF pp.exc # "none" THEN [exc |-> pp.exc, value |-> <<>>]
    ELSE IF GetExc(pp.value, "story") # "none"
    THEN [exc |-> GetExc(pp.value, "story"), value |-> <<>>]
    ELSE IF GetExc(pp.value.story, "snapList") # "none"
    THEN [exc |-> GetExc(pp.value.story, "snapList"), value |-> <<>>]
    ELSE [exc |-> "none", value |-> pp.value.story.snapList]

util_web_story(content) ==
    LET pp == PageProps(content) IN
    IF pp.exc # "none" THEN [exc |-> pp.exc, value |-> <<>>]
    ELSE IF InExc(pp.value, "story") # "none"
    THEN [exc |-> InExc(pp.value, "story"), value |-> <<>>]
    ELSE IF "story" \in DOMAIN pp.value
    THEN IF GetExc(pp.value.story, "snapList") # "none"
         THEN [exc |-> GetExc(pp.value.story, "snapList"), value |-> <<>>]
         ELSE [exc |-> "none", value |-> pp.value.story.snapList]
    ELSE [exc |-> "none", value |-> <<>>]

\* the body of the try block: (stories, user_info), or the exception it raises
ParseStory(response_json_raw) ==
    IF Len(response_json_raw) = 0
    THEN [exc |-> "IndexError", stories |-> <<>>, user_info |-> Null]
    ELSE LET response_json == JsonLoads(response_json_raw[1]) IN
         IF response_json.exc # "none"
         THEN [exc |-> response_json.exc, stories |-> <<>>, user_info |-> Null]
         ELSE LET user_info == util_web_user_info(response_json.value) IN
              IF user_info.exc # "none"
              THEN [exc |-> user_info.exc, stories |-> <<>>, user_info |-> Null]
              ELSE LET st == util_web_story(response_json.value) IN
                   IF st.exc # "none"
                   THEN [exc |-> st.exc, stories |-> <<>>, user_info |-> Null]
                   ELSE [exc |-> "none", stories |-> st.value,
                         user_info |-> user_info.value]

\* the except clause of _web_fetch_story
ParseCatches(e) ==
    \E cls \in {"IndexError", "KeyError", "ValueError"} : IsInstance(e, cls)

\* mutant of StatusFails: only server errors are treated as failures
StatusFailsServerOnly(resp) == resp.status_code >= 500

\* response.status_code != requests.codes.ok (line 68)
StatusFails(resp) == resp.status_code # StatusOk

\* _web_fetch_story(username) on the response of _api_response:
\* what it logs, and what it returns or raises
web_fetch_story(resp) ==
    IF StatusFails(resp)
    THEN [exc |-> "APIResponseError", stories |-> <<>>, user_info |-> Null,
          logs |-> IF resp.status_code = StatusNotFound
                   THEN <<"error: user not found (404)">>
                   ELSE <<"error: failed to fetch, status code">>]
    ELSE LET r == ParseStory(FindAll(resp.text)) IN
         IF r.exc # "none" /\ ParseCatches(r.exc)
         THEN [exc |-> "APIResponseError", stories |-> <<>>, user_info |-> Null,
               logs |-> <<"error: error parsing response">>]
         ELSE [exc |-> r.exc, stories |-> r.stories, user_info |-> r.user_info,
               logs |-> <<>>]

----------------------------------------------------------------------------
(* _download_media *)

IsDigit(c) == \E d \in 0..9 : ToString(d) = c

DigitOf(c) == CHOOSE d \in 0..9 : ToString(d) = c

RECURSIVE DecimalValue(_)
DecimalValue(cs) ==
    IF cs = <<>> THEN 0
    ELSE 10 * DecimalValue(SubSeq(cs, 1, Len(cs) - 1)) + DigitOf(cs[Len(cs)])

\* int(text) for a text given as its characters
PyInt(cs) ==
    IF cs # <<>> /\ \A k \in 1..Len(cs) : IsDigit(cs[k])
    THEN [exc |-> "none", value |-> DecimalValue(cs)]
    ELSE [exc |-> "ValueError", value |-> 0]

Pad2(n) == IF n < 10 THEN "0" \o ToString(n) ELSE ToString(n)

SecondsPerDay == 24 * 3600

\* strf_time(timestamp, "%Y-%m-%d") of snapchat_dlp.utils: the UTC calendar
\* day of the timestamp (written out for the timestamps of January 1970)
DateStr(timestamp) == "1970-01-" \o Pad2((timestamp \div SecondsPerDay) + 1)

\* strf_time(timestamp, "%Y-%m-%d_%H-%M-%S")
DateTimeStr(timestamp) ==
    LET s == timestamp % SecondsPerDay IN
    DateStr(timestamp) \o "_" \o Pad2(s \div 3600) \o "-" \o Pad2((s % 3600) \div 60)
        \o "-" \o Pad2(s % 60)

\* MEDIA_TYPE[media_type] of snapchat_dlp.utils: the extension of a recognized
\* kind, and a marked fallback for any other kind
MediaTypeExt(media_type) ==
    IF media_type = 0 THEN "jpg"
    ELSE IF media_type = 1 THEN "mp4"
    ELSE "unknown"

\* os.path.join on relative components
PathJoin(a, b) == a \o "/" \o b

\* mutant of Filename: the snap id is left out of the file name
FilenameWithoutId(timestamp, snap_id, username, media_type) ==
    DateTimeStr(timestamp) \o " " \o username \o "." \o MediaTypeExt(media_type)

\* strf_time(timestamp, "%Y-%m-%d_%H-%M-%S {} {}.{}").format(snap_id, username, ext)
Filename(timestamp, snap_id, username, media_type) ==
    DateTimeStr(timestamp) \o " " \o snap_id \o " " \o username \o "."
        \o MediaTypeExt(media_type)

\* the first exception the reads of lines 101-104 raise
MediaFieldsExc(media) ==
    IF GetExc(media, "snapId") # "none" THEN GetExc(media, "snapId")
    ELSE IF GetExc(media.snapId, "value") # "none" THEN GetExc(media.snapId, "value")
    ELSE IF GetExc(media, "snapUrls") # "none" THEN GetExc(media, "snapUrls")
    ELSE IF GetExc(media.snapUrls, "mediaUrl") # "none"
    THEN GetExc(media.snapUrls, "mediaUrl")
    ELSE IF GetExc(media, "snapMediaType") # "none" THEN GetExc(media, "snapMediaType")
    ELSE IF GetExc(media, "timestampInSec") # "none"
    THEN GetExc(media, "timestampInSec")
    ELSE IF GetExc(media.timestampInSec, "value") # "none"
    THEN GetExc(media.timestampInSec, "value")
    ELSE PyInt(media.timestampInSec.value).exc

NoMedia == [exc |-> "none", media_url |-> "", media_output |-> "", dir_name |-> "",
            filename_json |-> ""]

\* _download_media(media, username, snap_user): the directory it creates, the
\* sidecar it writes when dump_json is set, and (media_url, media_output)
download_media(media, username, dump_json) ==
    IF MediaFieldsExc(media) # "none"
    THEN [NoMedia EXCEPT !.exc = MediaFieldsExc(media)]
    ELSE LET snap_id == media.snapId.value
             timestamp == PyInt(media.timestampInSec.value).value
             dir_name == PathJoin(PathJoin(DirectoryPrefix, username), DateStr(timestamp))
             filename == Filename(timestamp, snap_id, username, media.snapMediaType)
         IN  [exc |-> "none",
              media_url |-> media.snapUrls.mediaUrl,
              media_output |-> PathJoin(dir_name, filename),
              dir_name |-> dir_name,
              filename_json |-> IF dump_json
                                THEN PathJoin(dir_name, filename \o ".json")
                                ELSE ""]

----------------------------------------------------------------------------
(* download *)

\* except APIResponseError (line 131)
DownloadCatches(e) == IsInstance(e, "APIResponseError")

\* the list the for loop of line 144 iterates over
StoriesToDownload(list, limit_story) == list

\* mutant of NextMedia: the list is walked from its end
NextMediaReversed(list, n) == list[Len(list) - n]

\* for media in stories: the item taken at iteration n + 1
NextMedia(list, n) == list[n + 1]

\* mutant of PoolSize: the pool is created without max_workers and takes the
\* library's default
PoolSizeDefault(cfg) == 32

\* ThreadPoolExecutor(max_workers=self.max_workers)
PoolSize(cfg) == cfg.max_workers

\* mutant of ShutdownWait: executor.shutdown() with its default wait=True
ShutdownWaitDefault == TRUE

\* executor.shutdown(wait=False)
ShutdownWait == FALSE

NoExecutor == [created |-> FALSE, shutdown |-> FALSE, max_workers |-> 0,
               threads |-> 0, idle_sem |-> 0]

NoTask == [media_url |-> "", media_output |-> "", sleep_interval |-> SleepInterval]

LimitStories == {DefaultLimitStory, 1}

Configs ==
    [max_workers : 1..MaxWorkers, limit_story : LimitStories, quiet : BOOLEAN,
     dump_json : BOOLEAN]

Init ==
    /\ config \in Configs
    /\ pc = "start"
    /\ exc = "none"
    /\ response = NoResponse
    /\ stories = <<>>
    /\ snap_user = Null
    /\ i = 0
    /\ cur = NoTask
    /\ executor = NoExecutor
    /\ queue = <<>>
    /\ running = {}
    /\ finished = {}
    /\ submitted = <<>>
    /\ dirs = {}
    /\ sidecars = {}
    /\ log = <<>>
    /\ interrupted = FALSE
    /\ at_signal = 0

\* _api_response returns the response of requests.get
ApiResponse ==
    /\ pc = "start"
    /\ \E r \in Responses : response' = r
    /\ pc' = "fetched"
    /\ UNCHANGED <<config, exc, stories, snap_user, i, cur, executor, queue, running,
                   finished, submitted, dirs, sidecars, log, interrupted, at_signal>>

\* requests.get raises on a transport failure; nothing in download() catches it
ApiResponseFails ==
    /\ pc = "start"
    /\ pc' = "raised"
    /\ exc' = "ConnectionError"
    /\ UNCHANGED <<config, response, stories, snap_user, i, cur, executor, queue,
                   running, finished, submitted, dirs, sidecars, log, interrupted,
                   at_signal>>

\* lines 129-133: the rest of _web_fetch_story and the except clause around it
FetchStory ==
    /\ pc = "fetched"
    /\ LET r == web_fetch_story(response) IN
       IF r.exc = "none"
       THEN /\ stories' = StoriesToDownload(r.stories, config.limit_story)
            /\ snap_user' = r.user_info
            /\ log' = log \o r.logs
            /\ pc' = "check"
            /\ exc' = exc
       ELSE IF DownloadCatches(r.exc)
       THEN /\ log' = log \o r.logs \o <<"error: could not fetch data">>
            /\ pc' = "done"
            /\ UNCHANGED <<stories, snap_user, exc>>
       ELSE /\ log' = log \o r.logs
            /\ pc' = "raised"
            /\ exc' = r.exc
            /\ UNCHANGED <<stories, snap_user>>
    /\ UNCHANGED <<config, response, i, cur, executor, queue, running, finished,
                   submitted, dirs, sidecars, interrupted, at_signal>>

\* lines 135-142
CheckStories ==
    /\ pc = "check"
    /\ IF Len(stories) = 0
       THEN /\ log' = IF config.quiet THEN log ELSE Append(log, "info: has no stories")
            /\ pc' = "done"
            /\ executor' = executor
       ELSE /\ log' = Append(log, "info: has stories")
            /\ executor' = [created |-> TRUE, shutdown |-> FALSE,
                            max_workers |-> PoolSize(config), threads |-> 0,
                            idle_sem |-> 0]
            /\ pc' = "loop"
    /\ UNCHANGED <<config, exc, response, stories, snap_user, i, cur, queue, running,
                   finished, submitted, dirs, sidecars, interrupted, at_signal>>

\* lines 144-145: the loop takes the next item and names it
TakeItem ==
    /\ pc = "loop"
    /\ i < Len(stories)
    /\ LET r == download_media(NextMedia(stories, i), Username, config.dump_json) IN
       IF r.exc # "none"
       THEN /\ pc' = "raised"
            /\ exc' = r.exc
            /\ UNCHANGED <<i, cur, dirs, sidecars>>
       ELSE /\ dirs' = dirs \cup {r.dir_name}
            /\ sidecars' = IF config.dump_json
                           THEN sidecars \cup {r.filename_json}
                           ELSE sidecars
            /\ cur' = [media_url |-> r.media_url, media_output |-> r.media_output,
                       sleep_interval |-> SleepInterval]
            /\ i' = i + 1
            /\ pc' = "submit"
            /\ exc' = exc
    /\ UNCHANGED <<config, response, stories, snap_user, executor, queue, running,
                   finished, submitted, log, interrupted, at_signal>>

\* line 146: executor.submit queues the task; the pool starts a thread when no
\* thread is idle and fewer than max_workers exist
Submit ==
    /\ pc = "submit"
    /\ submitted' = Append(submitted, cur)
    /\ queue' = Append(queue, Len(submitted) + 1)
    /\ executor' =
         IF executor.idle_sem > 0
         THEN [executor EXCEPT !.idle_sem = @ - 1]
         ELSE IF executor.threads < executor.max_workers
         THEN [executor EXCEPT !.threads = @ + 1]
         ELSE executor
    /\ cur' = NoTask
    /\ pc' = "loop"
    /\ UNCHANGED <<config, exc, response, stories, snap_user, i, running, finished,
                   dirs, sidecars, log, interrupted, at_signal>>

\* line 150, reached when the loop is exhausted
LoopEnd ==
    /\ pc = "loop"
    /\ i = Len(stories)
    /\ log' = Append(log, "info: stories downloaded")
    /\ pc' = "done"
    /\ UNCHANGED <<config, exc, response, stories, snap_user, i, cur, executor, queue,
                   running, finished, submitted, dirs, sidecars, interrupted, at_signal>>

\* a KeyboardInterrupt is raised inside the try block of lines 143-146
KeyboardInterrupt ==
    /\ pc \in {"loop", "submit"}
    /\ interrupted' = TRUE
    /\ at_signal' = Len(submitted)
    /\ pc' = "except"
    /\ UNCHANGED <<config, exc, response, stories, snap_user, i, cur, executor, queue,
                   running, finished, submitted, dirs, sidecars, log>>

\* lines 147-150: the handler shuts the pool down and download() returns
ExceptShutdown ==
    /\ pc = "except"
    /\ ShutdownWait => (queue = <<>> /\ running = {})
    /\ executor' = [executor EXCEPT !.shutdown = TRUE]
    /\ log' = Append(log, "info: stories downloaded")
    /\ pc' = "done"
    /\ UNCHANGED <<config, exc, response, stories, snap_user, i, cur, queue, running,
                   finished, submitted, dirs, sidecars, interrupted, at_signal>>

\* a pool thread takes the oldest queued task and calls download_url on it
WorkerStart ==
    /\ queue # <<>>
    /\ Cardinality(running) < executor.threads
    /\ running' = running \cup {Head(queue)}
    /\ queue' = Tail(queue)
    /\ UNCHANGED <<config, pc, exc, response, stories, snap_user, i, cur, executor,
                   finished, submitted, dirs, sidecars, log, interrupted, at_signal>>

\* download_url returns in a pool thread, which becomes idle
WorkerFinish ==
    /\ \E t \in running :
         /\ running' = running \ {t}
         /\ finished' = finished \cup {t}
    /\ executor' = [executor EXCEPT !.idle_sem = @ + 1]
    /\ UNCHANGED <<config, pc, exc, response, stories, snap_user, i, cur, queue,
                   submitted, dirs, sidecars, log, interrupted, at_signal>>

Next ==
    \/ ApiResponse
    \/ ApiResponseFails
    \/ FetchStory
    \/ CheckStories
    \/ TakeItem
    \/ Submit
    \/ LoopEnd
    \/ KeyboardInterrupt
    \/ ExceptShutdown
    \/ WorkerStart
    \/ WorkerFinish

Spec == Init /\ [][Next]_vars

----------------------------------------------------------------------------
(* Properties *)

\* the list the extractor returned for the response, before download() uses it
Extracted == web_fetch_story(response).stories

\* download() has dealt with the result of _web_fetch_story
PastFetch == pc \notin {"start", "fetched"}

WellFormedItem(media) ==
    /\ DOMAIN media = {"snapId", "snapUrls", "snapMediaType", "timestampInSec"}
    /\ media.timestampInSec.value # <<>>
    /\ \A k \in 1..Len(media.timestampInSec.value) :
         media.timestampInSec.value[k] \in {"0", "1", "2", "3", "4", "5", "6", "7", "8", "9"}

WellFormedList(list) ==
    /\ \A k \in 1..Len(list) : WellFormedItem(list[k])
    /\ \A j, k \in 1..Len(list) : j # k => list[j].snapId.value # list[k].snapId.value

ErrorLogs == {k \in 1..Len(log) : log[k] \in {"error: user not found (404)",
                                               "error: failed to fetch, status code",
                                               "error: error parsing response",
                                               "error: could not fetch data"}}

\* the first embedded-data block of a 200 response decodes to an object whose
\* props.pageProps is an object
HasPageProps(resp) ==
    /\ resp.status_code = StatusOk
    /\ \E k \in 1..Len(resp.text) :
         /\ resp.text[k].tag = "script"
         /\ \A j \in 1..(k - 1) : resp.text[j].tag # "script"
         /\ "props" \in DOMAIN resp.text[k].data
         /\ "pageProps" \in DOMAIN resp.text[k].data.props
         /\ "json_null" \notin DOMAIN resp.text[k].data.props.pageProps

\* the pageProps object of such a response
PagePropsOf(resp) ==
    LET k == CHOOSE k \in 1..Len(resp.text) :
                 /\ resp.text[k].tag = "script"
                 /\ \A j \in 1..(k - 1) : resp.text[j].tag # "script"
    IN  resp.text[k].data.props.pageProps

\* C1: no exception propagates out of download(), whatever the fetch result
\* and whatever the shape of the story items.
C1_NoExceptionPropagates == pc # "raised"

\* C2: an uninterrupted download() of N well-formed items with unique ids ends
\* with exactly N tasks submitted, whose destination paths are pairwise distinct.
C2_ExactlyNTasksDistinctPaths ==
    (pc = "done" /\ ~interrupted /\ web_fetch_story(response).exc = "none"
        /\ WellFormedList(Extracted))
    => /\ Len(submitted) = Len(Extracted)
       /\ \A j, k \in 1..Len(submitted) :
            j # k => submitted[j].media_output # submitted[k].media_output

C2_Witness ==
    /\ pc = "done" /\ ~interrupted
    /\ WellFormedList(Extracted)
    /\ Len(submitted) >= 2
    /\ \E j, k \in 1..Len(Extracted) :
         /\ j # k
         /\ Extracted[j].timestampInSec = Extracted[k].timestampInSec
         /\ Extracted[j].snapMediaType = Extracted[k].snapMediaType

\* C3: once a KeyboardInterrupt is raised during submission no further task is
\* submitted, and the handler's return is never held up by outstanding tasks.
C3_InterruptStopsAndReturns ==
    /\ interrupted => Len(submitted) = at_signal
    /\ pc = "except" => ENABLED ExceptShutdown
    /\ (interrupted /\ pc # "except") => (pc = "done" /\ exc = "none" /\ executor.shutdown)

\* download() has returned after the signal, with items left unsubmitted and a
\* submitted task still outstanding
C3_Witness ==
    /\ pc = "done" /\ interrupted
    /\ 0 < at_signal /\ at_signal < Len(stories)
    /\ (queue # <<>> \/ running # {})

\* C4: a 404 response ends in the user-not-found outcome: no task, no
\* extraction, no pool, no directory.
C4_NotFoundSchedulesNothing ==
    (PastFetch /\ response.status_code = StatusNotFound)
    => /\ pc = "done" /\ exc = "none"
       /\ log = <<"error: user not found (404)", "error: could not fetch data">>
       /\ stories = <<>> /\ submitted = <<>>
       /\ ~executor.created
       /\ dirs = {} /\ sidecars = {}

C4_Witness ==
    /\ pc = "done"
    /\ response.status_code = StatusNotFound
    /\ \E k \in 1..Len(response.text) : response.text[k].tag = "script"

\* a 200 response whose body has no embedded-data block, or whose first block
\* does not decode, or decodes to a tree without props.pageProps
Malformed(resp) ==
    /\ resp.status_code = StatusOk
    /\ LET blocks == SelectSeq(resp.text, LAMBDA seg : seg.tag = "script") IN
       \/ blocks = <<>>
       \/ "not_json" \in DOMAIN blocks[1].data
       \/ "props" \notin DOMAIN blocks[1].data
       \/ "pageProps" \notin DOMAIN blocks[1].data.props

\* C5: every malformed 200 response ends in the one malformed-response
\* outcome: logged, download() returns, no task scheduled.
C5_MalformedIsLoggedAndAborts ==
    (PastFetch /\ Malformed(response))
    => /\ pc = "done" /\ exc = "none"
       /\ log = <<"error: error parsing response", "error: could not fetch data">>
       /\ submitted = <<>> /\ ~executor.created

\* a 200 response with a well-formed userProfile and no story, or an empty snap-list
NoStoriesResponse(resp) ==
    /\ HasPageProps(resp)
    /\ "userProfile" \in DOMAIN PagePropsOf(resp)
    /\ PagePropsOf(resp).userProfile = Profile
    /\ \/ "story" \notin DOMAIN PagePropsOf(resp)
       \/ /\ "snapList" \in DOMAIN PagePropsOf(resp).story
          /\ PagePropsOf(resp).story.snapList = <<>>

\* C6: a well-formed response without stories ends in the no-stories outcome:
\* no task, no pool, no error reported.
C6_NoStoriesIsSuccess ==
    (pc \notin {"start", "fetched", "check"} /\ NoStoriesResponse(response))
    => /\ pc = "done" /\ exc = "none"
       /\ ErrorLogs = {}
       /\ log = IF config.quiet THEN <<>> ELSE <<"info: has no stories">>
       /\ submitted = <<>> /\ ~executor.created /\ dirs = {}

C6_Witness ==
    /\ pc = "done"
    /\ NoStoriesResponse(response)
    /\ "story" \notin DOMAIN PagePropsOf(response)

\* a 200 response whose pageProps object has no userProfile field
NoProfileResponse(resp) ==
    /\ HasPageProps(resp)
    /\ "userProfile" \notin DOMAIN PagePropsOf(resp)

C8_SubmissionInListOrder ==
    /\ Len(submitted) <= Len(Extracted)
    /\ \A k \in 1..Len(submitted) :
         /\ submitted[k].media_url = Extracted[k].snapUrls.mediaUrl
         /\ submitted[k].media_output
              = download_media(Extracted[k], Username, config.dump_json).media_output

\* completion order is free: the second task has finished and the first has not
C8_Witness ==
    /\ Len(submitted) >= 2
    /\ stories[1] # stories[2]
    /\ 2 \in finished /\ 1 \notin finished

\* C9: at most max_workers tasks execute at once, the others wait in the
\* queue, and a task that does not finish never holds up a submission.
C9_BoundedConcurrency ==
    /\ Cardinality(running) <= config.max_workers
    /\ pc = "submit" => ENABLED Submit

\* every worker is busy and a further task has been submitted and waits
C9_Witness ==
    /\ Cardinality(running) = config.max_workers
    /\ queue # <<>>
    /\ Len(submitted) > config.max_workers

\* C10: a non-negative limit_story caps the number of items scheduled, and the
\* default -1 schedules all of them.
C10_LimitStoryCaps ==
    (pc = "done" /\ ~interrupted)
    => /\ config.limit_story >= 0 => Len(submitted) <= config.limit_story
       /\ (config.limit_story = DefaultLimitStory /\ web_fetch_story(response).exc = "none")
            => Len(submitted) = Len(Extracted)

====
